---- MODULE Spec2Model ----
(***************************************************************************)
(* A model of api2go's resource dispatch layer (src/api.go): the resource  *)
(* registry, the capability dispatcher behind every route, the pagination  *)
(* link calculator and the linked-resource resolver.                       *)
(*                                                                         *)
(* Go strings that the code inspects character by character (numeric       *)
(* pagination parameters, the :id path segment) are sequences of           *)
(* one-character strings; names that are only compared are TLA+ strings.   *)
(***************************************************************************)
EXTENDS Integers, Sequences, FiniteSets, TLC

VARIABLES resources, routes, req, calls, resp

vars == <<resources, routes, req, calls, resp>>

(***************************************************************************)
(* Bounds of the model.                                                    *)
(***************************************************************************)
\* width of the unsigned integers of getLinks (uint64 in the code, scaled)
UintBits == 5

RECURSIVE Pow2(_)
Pow2(n) == IF n = 0 THEN 1 ELSE 2 * Pow2(n - 1)

Mod == Pow2(UintBits)
MaxUint == Mod - 1

(***************************************************************************)
(* strconv.ParseUint(s, 10, 64) and strconv.FormatUint(v, 10).             *)
(***************************************************************************)
DigitChars == {"0", "1", "2", "3", "4", "5", "6", "7", "8", "9"}

DigitVal(c) ==
    CASE c = "0" -> 0 [] c = "1" -> 1 [] c = "2" -> 2 [] c = "3" -> 3
      [] c = "4" -> 4 [] c = "5" -> 5 [] c = "6" -> 6 [] c = "7" -> 7
      [] c = "8" -> 8 [] c = "9" -> 9

DigitChar(d) ==
    CASE d = 0 -> "0" [] d = 1 -> "1" [] d = 2 -> "2" [] d = 3 -> "3"
      [] d = 4 -> "4" [] d = 5 -> "5" [] d = 6 -> "6" [] d = 7 -> "7"
      [] d = 8 -> "8" [] d = 9 -> "9"

\* the digits of s read left to right onto the accumulator n; a value above
\* MaxUint is a range error and stops the scan
RECURSIVE ParseDigits(_, _)
ParseDigits(s, n) ==
    IF s = <<>> THEN [err |-> FALSE, val |-> n]
    ELSE IF Head(s) \notin DigitChars THEN [err |-> TRUE, val |-> 0]
    ELSE LET m == n * 10 + DigitVal(Head(s))
         IN  IF m > MaxUint THEN [err |-> TRUE, val |-> MaxUint]
             ELSE ParseDigits(Tail(s), m)

ParseUint(s) ==
    IF s = <<>> THEN [err |-> TRUE, val |-> 0] ELSE ParseDigits(s, 0)

RECURSIVE FormatUint(_)
FormatUint(v) ==
    IF v < 10 THEN <<DigitChar(v)>>
    ELSE Append(FormatUint(v \div 10), DigitChar(v % 10))

(***************************************************************************)
(* paginationQueryParams                                                   *)
(***************************************************************************)
PageKeys == {"page[number]", "page[size]", "page[offset]", "page[limit]"}

\* url.Values.Get: the value of the key, "" when the key is absent
Get(query, key) == IF key \in DOMAIN query THEN query[key] ELSE <<>>

\* url.Values.Set, and assignment to a Go map
Put(m, k, v) == [x \in DOMAIN m \cup {k} |-> IF x = k THEN v ELSE m[x]]

EmptyMap == [x \in {} |-> <<>>]

newPaginationQueryParams(query) ==
    [number |-> Get(query, "page[number]"),
     size   |-> Get(query, "page[size]"),
     offset |-> Get(query, "page[offset]"),
     limit  |-> Get(query, "page[limit]")]

\* isValid without the test that the other pair is absent
isValidAnyPair(p) ==
    IF p.number = <<>> /\ p.size = <<>> /\ p.offset = <<>> /\ p.limit = <<>>
    THEN FALSE
    ELSE IF p.number # <<>> /\ p.size # <<>>
    THEN TRUE
    ELSE IF p.offset # <<>> /\ p.limit # <<>>
    THEN TRUE
    ELSE FALSE

isValid(p) ==
    IF p.number = <<>> /\ p.size = <<>> /\ p.offset = <<>> /\ p.limit = <<>>
    THEN FALSE
    ELSE IF p.number # <<>> /\ p.size # <<>> /\ p.offset = <<>> /\ p.limit = <<>>
    THEN TRUE
    ELSE IF p.number = <<>> /\ p.size = <<>> /\ p.offset # <<>> /\ p.limit # <<>>
    THEN TRUE
    ELSE FALSE

\* the result of getLinks: the links set so far, the error returned, and
\* whether the call panicked (integer division by zero)
LinksResult(links, err, panic) == [links |-> links, err |-> err, panic |-> panic]

\* unsigned arithmetic of the machine word
AddU(a, b) == (a + b) % Mod
SubU(a, b) == (a - b + Mod) % Mod

\* the page[number] / page[size] branch; every link is the request's query
\* with the one key replaced
getLinksNumberSize(p, params, count) ==
    LET pn == ParseUint(p.number) IN
    IF pn.err THEN LinksResult(EmptyMap, TRUE, FALSE)
    ELSE
    LET number == pn.val
        l1 == IF p.number # <<"1">>
              THEN Put(Put(EmptyMap, "first", Put(params, "page[number]", <<"1">>)),
                       "prev", Put(params, "page[number]", FormatUint(SubU(number, 1))))
              ELSE EmptyMap
        ps == ParseUint(p.size)
    IN  IF ps.err THEN LinksResult(l1, TRUE, FALSE)
        ELSE IF ps.val = 0 THEN LinksResult(l1, FALSE, TRUE)
        ELSE
        LET size == ps.val
            tp0 == count \div size
            totalPages == IF count % size # 0 THEN AddU(tp0, 1) ELSE tp0
            l2 == IF number # totalPages
                  THEN Put(Put(l1, "next", Put(params, "page[number]", FormatUint(AddU(number, 1)))),
                           "last", Put(params, "page[number]", FormatUint(totalPages)))
                  ELSE l1
        IN  LinksResult(l2, FALSE, FALSE)

\* the page[offset] / page[limit] branch
getLinksOffsetLimit(p, params, count) ==
    LET po == ParseUint(p.offset) IN
    IF po.err THEN LinksResult(EmptyMap, TRUE, FALSE)
    ELSE
    LET pl == ParseUint(p.limit) IN
    IF pl.err THEN LinksResult(EmptyMap, TRUE, FALSE)
    ELSE
    LET offset == po.val
        limit == pl.val
        prevOffset == IF limit > offset THEN 0 ELSE SubU(offset, limit)
        l1 == IF p.offset # <<"0">>
              THEN Put(Put(EmptyMap, "first", Put(params, "page[offset]", <<"0">>)),
                       "prev", Put(params, "page[offset]", FormatUint(prevOffset)))
              ELSE EmptyMap
        l2 == IF AddU(offset, limit) < count
              THEN Put(Put(l1, "next", Put(params, "page[offset]", FormatUint(AddU(offset, limit)))),
                       "last", Put(params, "page[offset]", FormatUint(SubU(count, limit))))
              ELSE l1
    IN  LinksResult(l2, FALSE, FALSE)

getLinks(p, params, count) ==
    IF p.number # <<>>
    THEN getLinksNumberSize(p, params, count)
    ELSE getLinksOffsetLimit(p, params, count)

(***************************************************************************)
(* Resource prototypes (reflect.Type of the value handed to AddResource)   *)
(* and data sources.                                                       *)
(***************************************************************************)
Field(n, k, e) == [name |-> n, kind |-> k, elem |-> e]

PostType ==
    [kind |-> "struct", name |-> "Post",
     fields |-> <<Field("ID", "string", ""), Field("Title", "string", ""),
                  Field("Comments", "slice", "Comment")>>]

\* two fields share the name "parent" once conventionalized; no resource is
\* ever registered for the element type of the first
CommentType ==
    [kind |-> "struct", name |-> "Comment",
     fields |-> <<Field("ID", "string", ""), Field("parent", "ptr", "Thread"),
                  Field("Parent", "ptr", "Post")>>]

PostPtrType == [kind |-> "ptr", name |-> "", fields |-> <<>>]

Prototypes == {PostType, CommentType, PostPtrType}

OptionalCaps == {"FindAll", "FindMultiple", "PaginatedFindAll"}

\* a data source is known to the dispatcher by the optional interfaces it
\* implements; CRUD is mandatory
Source(caps) == [caps |-> caps]
Sources ==
    {Source({}), Source({"FindAll"}), Source({"FindMultiple", "PaginatedFindAll"}),
     Source(OptionalCaps)}

\* jsonapi.Jsonify: the first letter in lower case
Jsonify(s) ==
    CASE s = "Post" -> "post" [] s = "Posts" -> "posts"
      [] s = "Comment" -> "comment" [] s = "Comments" -> "comments"
      [] s = "Thread" -> "thread" [] s = "Threads" -> "threads"
      [] s = "Parent" -> "parent" [] s = "Title" -> "title"
      [] s = "ID" -> "id"
      [] OTHER -> s

\* jsonapi.Pluralize
Pluralize(s) ==
    CASE s = "Post" -> "Posts" [] s = "post" -> "posts"
      [] s = "Comment" -> "Comments" [] s = "comment" -> "comments"
      [] s = "Thread" -> "Threads" [] s = "thread" -> "threads"
      [] s = "" -> ""
      [] OTHER -> s \o "s"

(***************************************************************************)
(* The router and the registry.                                            *)
(***************************************************************************)
\* NewAPI: the prefix with its slashes
Prefix == "/v1/"

\* Router.Handle: a handle registered twice for one method and path panics
RouterHandle(rt, method, path) ==
    IF rt.panic THEN rt
    ELSE IF <<method, path>> \in rt.routes
    THEN [routes |-> rt.routes, panic |-> TRUE]
    ELSE [routes |-> rt.routes \cup {<<method, path>>}, panic |-> FALSE]

\* the routes addResource registers for a resource name, in order
ResourceRoutes(name) ==
    <<<<"OPTIONS", Prefix \o name>>,
      <<"OPTIONS", Prefix \o name \o "/:id">>,
      <<"GET", Prefix \o name>>,
      <<"GET", Prefix \o name \o "/:id">>,
      <<"GET", Prefix \o name \o "/:id/:linked">>,
      <<"POST", Prefix \o name>>,
      <<"DELETE", Prefix \o name \o "/:id">>,
      <<"PATCH", Prefix \o name \o "/:id">>>>

RECURSIVE HandleAll(_, _)
HandleAll(rt, rs) ==
    IF rs = <<>> THEN rt
    ELSE HandleAll(RouterHandle(rt, Head(rs)[1], Head(rs)[2]), Tail(rs))

\* addResource with the resource appended before its routes are registered
addResourceAppendsFirst(api, prototype, source) ==
    IF prototype.kind # "struct"
    THEN [resources |-> api.resources, routes |-> api.routes, panic |-> TRUE]
    ELSE
    LET name == Jsonify(Pluralize(prototype.name))
        res == [resourceType |-> prototype, name |-> name, source |-> source]
        rt == HandleAll([routes |-> api.routes, panic |-> FALSE], ResourceRoutes(name))
    IN  [resources |-> Append(api.resources, res), routes |-> rt.routes,
         panic |-> rt.panic]

\* addResource: the API after the call, and whether the call panicked
addResource(api, prototype, source) ==
    IF prototype.kind # "struct"
    THEN [resources |-> api.resources, routes |-> api.routes, panic |-> TRUE]
    ELSE
    LET name == Jsonify(Pluralize(prototype.name))
        res == [resourceType |-> prototype, name |-> name, source |-> source]
        rt == HandleAll([routes |-> api.routes, panic |-> FALSE], ResourceRoutes(name))
    IN  IF rt.panic
        THEN [resources |-> api.resources, routes |-> rt.routes, panic |-> TRUE]
        ELSE [resources |-> Append(api.resources, res), routes |-> rt.routes,
              panic |-> FALSE]

(***************************************************************************)
(* Requests, responses, errors.                                            *)
(***************************************************************************)
\* the http.ResponseWriter of a request: status 0 until a header is written
NewWriter ==
    [status |-> 0, body |-> "none", detail |-> "", links |-> EmptyMap,
     location |-> "", panic |-> FALSE]

NoError == [ok |-> TRUE, typed |-> FALSE, status |-> 0, msg |-> ""]

\* NewHTTPError(err, msg, status): an HTTPError carrying its status
NewHTTPError(msg, status) ==
    [ok |-> FALSE, typed |-> TRUE, status |-> status, msg |-> msg]

\* errors.New(msg), and every error that is no HTTPError
PlainError(msg) == [ok |-> FALSE, typed |-> FALSE, status |-> 0, msg |-> msg]

\* what a data source may answer a call with: no error, an HTTPError, or
\* another error
SourceErrors == {NewHTTPError("source", 422), PlainError("source")}
Outcomes == {NoError} \cup SourceErrors

\* a call that answers with an object: the object, which the Codec can
\* marshal or cannot, or an error
Fetched(m) == [ok |-> TRUE, typed |-> FALSE, status |-> 0, msg |-> "", marshals |-> m]
FetchOutcomes == {Fetched(TRUE), Fetched(FALSE)} \cup SourceErrors

\* handleError without the HTTPError case
handleErrorAlways500(err, w) ==
    [w EXCEPT !.status = 500, !.body = "error", !.detail = err.msg]

handleError(err, w) ==
    IF err.typed
    THEN [w EXCEPT !.status = err.status, !.body = "error", !.detail = err.msg]
    ELSE [w EXCEPT !.status = 500, !.body = "error", !.detail = err.msg]

\* what a handler hands back: the data-source calls it made, the error it
\* returned and the response writer as it left it
Handled(cs, err, w) == [calls |-> cs, err |-> err, w |-> w]

\* the closure addResource registers for a route: handleError on an error
Route(h) == IF h.err.ok THEN h.w ELSE handleError(h.err, h.w)

Call(name, method, arg, out) ==
    [source |-> name, method |-> method, arg |-> arg, err |-> out]

\* strings.Split(s, ","), cur being the segment read so far
RECURSIVE SplitFrom(_, _)
SplitFrom(s, cur) ==
    IF s = <<>> THEN <<cur>>
    ELSE IF Head(s) = "," THEN <<cur>> \o SplitFrom(Tail(s), <<>>)
    ELSE SplitFrom(Tail(s), Append(cur, Head(s)))

Split(s) == SplitFrom(s, <<>>)

\* buildRequest: every query value split on commas
buildRequest(query) == [k \in DOMAIN query |-> Split(query[k])]

\* respondWith: the document marshalled and written, or the marshalling error
respondWith(cs, w, body, detail, status, marshalOK) ==
    IF marshalOK
    THEN Handled(cs, NoError, [w EXCEPT !.status = status, !.body = body, !.detail = detail])
    ELSE Handled(cs, PlainError("marshal"), w)

respondWithPagination(cs, w, links, status, marshalOK) ==
    IF marshalOK
    THEN Handled(cs, NoError, [w EXCEPT !.status = status, !.body = "data", !.links = links])
    ELSE Handled(cs, PlainError("marshal"), w)

\* a handler that panicked: net/http recovers and drops the connection
Panicked(cs, w) == Handled(cs, NoError, [w EXCEPT !.panic = TRUE])

(***************************************************************************)
(* The handlers.  Every data-source call is logged with what it answered;  *)
(* what a data source answers is an input of the handler.                  *)
(***************************************************************************)
MissingInterface(cap) == "Resource does not implement the " \o cap \o " interface"

handleIndex(res, query, out, count) ==
    LET pagination == newPaginationQueryParams(query) IN
    IF isValid(pagination)
    THEN IF "PaginatedFindAll" \notin res.source.caps
         THEN Handled(<<>>, NewHTTPError(MissingInterface("PaginatedFindAll"), 404), NewWriter)
         ELSE
         LET cs == <<Call(res.name, "PaginatedFindAll", [query |-> buildRequest(query)], out)>>
             lr == getLinks(pagination, query, count)
         IN  IF ~out.ok THEN Handled(cs, out, NewWriter)
             ELSE IF lr.panic THEN Panicked(cs, NewWriter)
             ELSE IF lr.err THEN Handled(cs, PlainError("strconv.ParseUint"), NewWriter)
             ELSE respondWithPagination(cs, NewWriter, lr.links, 200, out.marshals)
    ELSE IF "FindAll" \notin res.source.caps
         THEN Handled(<<>>, NewHTTPError(MissingInterface("FindAll"), 404), NewWriter)
         ELSE
         LET cs == <<Call(res.name, "FindAll", [query |-> buildRequest(query)], out)>>
         IN  IF ~out.ok THEN Handled(cs, out, NewWriter)
             ELSE respondWith(cs, NewWriter, "data", "", 200, out.marshals)

\* handleRead falling back on FindOne of the first id without FindMultiple
handleReadFallsBack(res, id, out) ==
    LET ids == Split(id)
        cs == <<Call(res.name, "FindOne", [id |-> ids[1]], out)>>
        cm == <<Call(res.name, "FindMultiple", [ids |-> ids], out)>>
    IN  IF Len(ids) = 1 \/ "FindMultiple" \notin res.source.caps
        THEN IF ~out.ok THEN Handled(cs, out, NewWriter)
             ELSE respondWith(cs, NewWriter, "data", "", 200, out.marshals)
        ELSE IF ~out.ok THEN Handled(cm, out, NewWriter)
             ELSE respondWith(cm, NewWriter, "data", "", 200, out.marshals)

handleRead(res, id, out) ==
    LET ids == Split(id) IN
    IF Len(ids) = 1
    THEN LET cs == <<Call(res.name, "FindOne", [id |-> ids[1]], out)>>
         IN  IF ~out.ok THEN Handled(cs, out, NewWriter)
             ELSE respondWith(cs, NewWriter, "data", "", 200, out.marshals)
    ELSE IF "FindMultiple" \notin res.source.caps
         THEN Handled(<<>>, NewHTTPError(MissingInterface("FindMultiple"), 404), NewWriter)
         ELSE
         LET cs == <<Call(res.name, "FindMultiple", [ids |-> ids], out)>>
         IN  IF ~out.ok THEN Handled(cs, out, NewWriter)
             ELSE respondWith(cs, NewWriter, "data", "", 200, out.marshals)

\* the inner loop of handleLinked: the position of the first resource of
\* the list, from position j on, that has the name; 0 when there is none
RECURSIVE FirstNamed(_, _, _)
FirstNamed(rs, name, j) ==
    IF j > Len(rs) THEN 0
    ELSE IF rs[j].name = name THEN j
    ELSE FirstNamed(rs, name, j + 1)

NoLinkedHandler(linked) ==
    "No resource handler is registered to handle the linked resource " \o linked

\* the Codec marshals an Error document without error
MarshalsErrorDocument == TRUE

\* the field test on the field's Go name, not conventionalized
isLinkedFieldRawName(field, linked) ==
    field.kind \in {"ptr", "slice"} /\ field.name = linked

\* the test handleLinked makes of a field: a pointer or a slice whose
\* conventionalized name is the :linked segment
isLinkedField(field, linked) ==
    field.kind \in {"ptr", "slice"} /\ Jsonify(field.name) = linked

\* the field loop of handleLinked from field i on
RECURSIVE linkedFrom(_, _, _, _, _, _)
linkedFrom(rs, res, i, id, linked, out) ==
    IF i > Len(res.resourceType.fields)
    THEN respondWith(<<>>, NewWriter, "error", NoLinkedHandler(linked), 404,
                     MarshalsErrorDocument)
    ELSE
    LET field == res.resourceType.fields[i]
        fieldType == Pluralize(Jsonify(field.elem))
        j == FirstNamed(rs, fieldType, 1)
    IN  IF isLinkedField(field, linked) /\ j # 0
        THEN IF "FindAll" \notin rs[j].source.caps
             THEN Handled(<<>>, NewHTTPError(MissingInterface("FindAll"), 404), NewWriter)
             ELSE
             LET request == Put(buildRequest(EmptyMap), res.name \o "ID", <<id>>)
                 cs == <<Call(rs[j].name, "FindAll", [query |-> request], out)>>
             IN  IF ~out.ok THEN Handled(cs, out, NewWriter)
                 ELSE respondWith(cs, NewWriter, "data", "", 200, out.marshals)
        ELSE linkedFrom(rs, res, i + 1, id, linked, out)

handleLinked(rs, res, id, linked, out) ==
    linkedFrom(rs, res, 1, id, linked, out)

\* handleCreate without the test of the client's identifier
handleCreateAcceptsClientID(res, body, out1, id, out2) ==
    IF ~body.json THEN Handled(<<>>, PlainError("json"), NewWriter)
    ELSE IF body.unmarshalErr THEN Handled(<<>>, PlainError("unmarshal"), NewWriter)
    ELSE IF Len(body.objs) # 1
    THEN Handled(<<>>, PlainError("expected one object in POST"), NewWriter)
    ELSE
    LET newObj == body.objs[1]
        c1 == <<Call(res.name, "Create", [obj |-> newObj], out1)>>
        w1 == [NewWriter EXCEPT !.location = Prefix \o res.name \o "/" \o id]
        c2 == Append(c1, Call(res.name, "FindOne", [id |-> id], out2))
    IN  IF ~out1.ok THEN Handled(c1, out1, NewWriter)
        ELSE IF ~out2.ok THEN Handled(c2, out2, w1)
        ELSE respondWith(c2, w1, "data", "", 201, out2.marshals)

handleCreate(res, body, out1, id, out2) ==
    IF ~body.json THEN Handled(<<>>, PlainError("json"), NewWriter)
    ELSE IF body.unmarshalErr THEN Handled(<<>>, PlainError("unmarshal"), NewWriter)
    ELSE IF Len(body.objs) # 1
    THEN Handled(<<>>, PlainError("expected one object in POST"), NewWriter)
    ELSE
    LET newObj == body.objs[1] IN
    IF newObj.marshalIdentifier /\ newObj.id # ""
    THEN respondWith(<<>>, NewWriter, "error", "Client generated IDs are not supported.",
                     403, MarshalsErrorDocument)
    ELSE
    LET c1 == <<Call(res.name, "Create", [obj |-> newObj], out1)>>
        w1 == [NewWriter EXCEPT !.location = Prefix \o res.name \o "/" \o id]
        c2 == Append(c1, Call(res.name, "FindOne", [id |-> id], out2))
    IN  IF ~out1.ok THEN Handled(c1, out1, NewWriter)
        ELSE IF ~out2.ok THEN Handled(c2, out2, w1)
        ELSE respondWith(c2, w1, "data", "", 201, out2.marshals)

Forbidden(msg) == NewHTTPError(msg, 403)

\* handleUpdate without the test for the "type" key
handleUpdateSkipsTypeCheck(res, id, body, out1, out2) ==
    LET c1 == <<Call(res.name, "FindOne", [id |-> id], out1)>>
        c2 == Append(c1, Call(res.name, "Update", [obj |-> "merged"], out2))
    IN
    IF ~out1.ok THEN Handled(c1, out1, NewWriter)
    ELSE IF ~body.json THEN Handled(c1, PlainError("json"), NewWriter)
    ELSE IF body.data = "absent"
    THEN Handled(c1, NewHTTPError("missing mandatory data key.", 403), NewWriter)
    ELSE IF body.data # "object"
    THEN Handled(c1, NewHTTPError("data must contain an object.", 403), NewWriter)
    ELSE IF "id" \notin body.keys
    THEN Handled(c1, NewHTTPError("missing mandatory id key.", 403), NewWriter)
    ELSE IF body.unmarshalErr THEN Handled(c1, PlainError("unmarshal"), NewWriter)
    ELSE IF body.nObjs # 1 THEN Handled(c1, PlainError("expected one object"), NewWriter)
    ELSE IF ~out2.ok THEN Handled(c2, out2, NewWriter)
    ELSE Handled(c2, NoError, [NewWriter EXCEPT !.status = 204])

handleUpdate(res, id, body, out1, out2) ==
    LET c1 == <<Call(res.name, "FindOne", [id |-> id], out1)>>
        c2 == Append(c1, Call(res.name, "Update", [obj |-> "merged"], out2))
    IN
    IF ~out1.ok THEN Handled(c1, out1, NewWriter)
    ELSE IF ~body.json THEN Handled(c1, PlainError("json"), NewWriter)
    ELSE IF body.data = "absent"
    THEN Handled(c1, Forbidden("missing mandatory data key."), NewWriter)
    ELSE IF body.data # "object"
    THEN Handled(c1, Forbidden("data must contain an object."), NewWriter)
    ELSE IF "id" \notin body.keys
    THEN Handled(c1, Forbidden("missing mandatory id key."), NewWriter)
    ELSE IF "type" \notin body.keys
    THEN Handled(c1, Forbidden("missing mandatory type key."), NewWriter)
    ELSE IF body.unmarshalErr THEN Handled(c1, PlainError("unmarshal"), NewWriter)
    ELSE IF body.nObjs # 1 THEN Handled(c1, PlainError("expected one object"), NewWriter)
    ELSE IF ~out2.ok THEN Handled(c2, out2, NewWriter)
    ELSE Handled(c2, NoError, [NewWriter EXCEPT !.status = 204])

handleDelete(res, id, out) ==
    LET cs == <<Call(res.name, "Delete", [id |-> id], out)>>
    IN  IF ~out.ok THEN Handled(cs, out, NewWriter)
        ELSE Handled(cs, NoError, [NewWriter EXCEPT !.status = 204])

(***************************************************************************)
(* Inputs of the requests.                                                 *)
(***************************************************************************)
\* the :id path segments of read requests
ReadSegments ==
    {<<"1">>, <<"1", ",", "2">>, <<"1", ",", "2", ",", "3">>, <<"2", ",", "1">>,
     <<"1", ",">>}

\* the :id path segments of the other requests
IdSegments == {<<"1">>, <<"1", ",", "2">>}

\* the :linked path segments
LinkedNames == {"comments", "parent", "title", "tags"}

\* the values a pagination parameter of an index request takes
IndexValues == {<<"2">>}

\* the query strings of index requests: any of the pagination keys, set
IndexQueries == UNION {[K -> IndexValues] : K \in SUBSET PageKeys}

\* the totals PaginatedFindAll reports
IndexCounts == {0, 3}

\* decoded objects: whether the type implements MarshalIdentifier, and what
\* GetID answers
Objects ==
    {[marshalIdentifier |-> TRUE, id |-> ""], [marshalIdentifier |-> TRUE, id |-> "7"],
     [marshalIdentifier |-> FALSE, id |-> ""]}

\* POST bodies: whether the JSON parses, whether UnmarshalInto fails, and
\* the objects it decodes
CreateBodies ==
    {[json |-> FALSE, unmarshalErr |-> FALSE, objs |-> <<>>],
     [json |-> TRUE, unmarshalErr |-> TRUE, objs |-> <<>>],
     [json |-> TRUE, unmarshalErr |-> FALSE, objs |-> <<>>]}
    \cup {[json |-> TRUE, unmarshalErr |-> FALSE, objs |-> <<o>>] : o \in Objects}
    \cup {[json |-> TRUE, unmarshalErr |-> FALSE,
            objs |-> <<[marshalIdentifier |-> TRUE, id |-> ""],
                       [marshalIdentifier |-> TRUE, id |-> ""]>>]}

\* the identifier Create answers with
NewID == "9"

\* PATCH bodies: whether the JSON parses, what is under its "data" key, the
\* keys of that object, and what UnmarshalInto makes of it
UpdateBodies ==
    {[json |-> FALSE, data |-> "absent", keys |-> {}, unmarshalErr |-> FALSE, nObjs |-> 1]}
    \cup {[json |-> TRUE, data |-> d, keys |-> {}, unmarshalErr |-> FALSE, nObjs |-> 1] :
            d \in {"absent", "scalar"}}
    \cup {[json |-> TRUE, data |-> "object", keys |-> ks, unmarshalErr |-> FALSE, nObjs |-> 1] :
            ks \in SUBSET {"id", "type"}}
    \cup {[json |-> TRUE, data |-> "object", keys |-> {"id", "type"}, unmarshalErr |-> TRUE,
           nObjs |-> 1],
          [json |-> TRUE, data |-> "object", keys |-> {"id", "type"}, unmarshalErr |-> FALSE,
           nObjs |-> 2]}

(***************************************************************************)
(* The state machine: registrations and requests in any order.  req is the *)
(* last operation, calls the data-source calls it made, resp its outcome.  *)
(***************************************************************************)
Init ==
    /\ resources = <<>>
    /\ routes = {}
    /\ req = [op |-> "none"]
    /\ calls = <<>>
    /\ resp = NewWriter

Served(r, h) ==
    /\ req' = r
    /\ calls' = h.calls
    /\ resp' = Route(h)
    /\ UNCHANGED <<resources, routes>>

AddResource ==
    \E prototype \in Prototypes, source \in Sources :
        LET api == addResource([resources |-> resources, routes |-> routes],
                               prototype, source)
        IN  /\ resources' = api.resources
            /\ routes' = api.routes
            /\ req' = [op |-> "AddResource", prototype |-> prototype, source |-> source]
            /\ calls' = <<>>
            /\ resp' = [NewWriter EXCEPT !.panic = api.panic]

Index ==
    \E i \in 1..Len(resources), query \in IndexQueries, out \in FetchOutcomes,
       count \in IndexCounts :
        Served([op |-> "index", res |-> i, query |-> query],
               handleIndex(resources[i], query, out, count))

Read ==
    \E i \in 1..Len(resources), id \in ReadSegments, out \in FetchOutcomes :
        Served([op |-> "read", res |-> i, id |-> id],
               handleRead(resources[i], id, out))

Linked ==
    \E i \in 1..Len(resources), id \in IdSegments, linked \in LinkedNames,
       out \in FetchOutcomes :
        Served([op |-> "linked", res |-> i, id |-> id, linked |-> linked],
               handleLinked(resources, resources[i], id, linked, out))

Create ==
    \E i \in 1..Len(resources), body \in CreateBodies, out1 \in Outcomes,
       out2 \in FetchOutcomes :
        Served([op |-> "create", res |-> i, body |-> body],
               handleCreate(resources[i], body, out1, NewID, out2))

Update ==
    \E i \in 1..Len(resources), id \in IdSegments, body \in UpdateBodies,
       out1 \in Outcomes, out2 \in Outcomes :
        Served([op |-> "update", res |-> i, id |-> id, body |-> body],
               handleUpdate(resources[i], id, body, out1, out2))

Delete ==
    \E i \in 1..Len(resources), id \in IdSegments, out \in Outcomes :
        Served([op |-> "delete", res |-> i, id |-> id],
               handleDelete(resources[i], id, out))

Next ==
    \/ AddResource
    \/ Index
    \/ Read
    \/ Linked
    \/ Create
    \/ Update
    \/ Delete

Spec == Init /\ [][Next]_vars

(***************************************************************************)
(* Properties of the dispatcher, each about the last request served.       *)
(***************************************************************************)
RequestOps == {"index", "read", "linked", "create", "update", "delete"}

\* the resource the last request was routed to
Res == resources[req.res]

Invoked(method) == \E k \in 1..Len(calls) : calls[k].method = method

\* the status handleError answers an error with
StatusOf(err) == IF err.typed THEN err.status ELSE 500

\* exactly one data-source call was made: the method, on the named resource
OnlyCall(name, method) ==
    /\ Len(calls) = 1
    /\ calls[1].source = name
    /\ calls[1].method = method

\* a PATCH whose body is JSON with a data object lacking "id" or "type"
LacksEnvelopeKey ==
    /\ req.op = "update"
    /\ req.body.json
    /\ req.body.data = "object"
    /\ {"id", "type"} \ req.body.keys # {}

\* C1 as stated: a PATCH whose data object lacks "id" or "type" is answered
\* 403 and neither FindOne nor Update has been invoked.
C1_RejectedBeforeAnyCall ==
    LacksEnvelopeKey =>
        /\ resp.status = 403
        /\ ~Invoked("FindOne")
        /\ ~Invoked("Update")

\* C1 amended: a PATCH whose data object lacks "id" or "type" never reaches
\* Update; FindOne(id) is invoked exactly once, before the envelope check;
\* the answer is 403 when that FindOne succeeds and the status of its error
\* when it fails.
C1_RejectedBeforeUpdate ==
    LacksEnvelopeKey =>
        /\ OnlyCall(Res.name, "FindOne")
        /\ calls[1].arg.id = req.id
        /\ calls[1].err.ok => resp.status = 403
        /\ ~calls[1].err.ok => resp.status = StatusOf(calls[1].err)

C1_Witness ==
    /\ LacksEnvelopeKey
    /\ "id" \in req.body.keys
    /\ Len(calls) = 1
    /\ calls[1].err.ok
    /\ resp.status = 403

\* a POST that decodes to one object whose identifier is not empty
CarriesClientID ==
    /\ req.op = "create"
    /\ req.body.json
    /\ ~req.body.unmarshalErr
    /\ Len(req.body.objs) = 1
    /\ req.body.objs[1].marshalIdentifier
    /\ req.body.objs[1].id # ""

PresentKeys == {k \in PageKeys : Get(req.query, k) # <<>>}

\* the capability an index request selects
SelectedCap ==
    IF PresentKeys \in {{"page[number]", "page[size]"}, {"page[offset]", "page[limit]"}}
    THEN "PaginatedFindAll"
    ELSE "FindAll"

\* C3: an index request goes to PaginatedFindAll iff exactly number and size
\* or exactly offset and limit are present, and to FindAll otherwise; a data
\* source without the selected capability gives 404 naming it, and no call.
C3_IndexDispatch ==
    req.op = "index" =>
        IF SelectedCap \in Res.source.caps
        THEN OnlyCall(Res.name, SelectedCap)
        ELSE /\ resp.status = 404
             /\ resp.detail = MissingInterface(SelectedCap)
             /\ calls = <<>>

\* a mixed combination on a data source that has both capabilities
C3_Witness ==
    /\ req.op = "index"
    /\ PresentKeys = {"page[number]", "page[size]", "page[offset]"}
    /\ {"FindAll", "PaginatedFindAll"} \subseteq Res.source.caps
    /\ OnlyCall(Res.name, "FindAll")

HasComma(s) == \E k \in 1..Len(s) : s[k] = ","

\* the segments joined by commas again
RECURSIVE Join(_)
Join(ss) == IF Len(ss) = 1 THEN ss[1] ELSE ss[1] \o <<",">> \o Join(Tail(ss))

\* C6: a read of an id without comma invokes FindOne with it; a read of a
\* comma-separated list gives 404 and no call without FindMultiple, and with
\* it exactly one FindMultiple call with the segments in request order.
C6_ReadDispatch ==
    req.op = "read" =>
        IF ~HasComma(req.id)
        THEN OnlyCall(Res.name, "FindOne") /\ calls[1].arg.id = req.id
        ELSE IF "FindMultiple" \notin Res.source.caps
        THEN /\ resp.status = 404
             /\ resp.detail = MissingInterface("FindMultiple")
             /\ calls = <<>>
        ELSE /\ OnlyCall(Res.name, "FindMultiple")
             /\ Join(calls[1].arg.ids) = req.id
             /\ \A k \in 1..Len(calls[1].arg.ids) : ~HasComma(calls[1].arg.ids[k])
             /\ req.id = <<"1", ",", "2", ",", "3">> =>
                    calls[1].arg.ids = <<<<"1">>, <<"2">>, <<"3">>>>

C6_Witness ==
    /\ req.op = "read"
    /\ req.id = <<"1", ",", "2", ",", "3">>
    /\ OnlyCall(Res.name, "FindMultiple")
    /\ Len(calls[1].arg.ids) = 3

\* the (field, resource) positions a :linked segment can resolve to: a
\* pointer or sequence field of that conventionalized name and a registered
\* resource named by the plural of its element type
LinkTargets ==
    {t \in (1..Len(Res.resourceType.fields)) \X (1..Len(resources)) :
        /\ Res.resourceType.fields[t[1]].kind \in {"ptr", "slice"}
        /\ Jsonify(Res.resourceType.fields[t[1]].name) = req.linked
        /\ resources[t[2]].name = Pluralize(Jsonify(Res.resourceType.fields[t[1]].elem))}

\* the first of them, in field order and then registration order
LinkTarget ==
    CHOOSE t \in LinkTargets :
        \A u \in LinkTargets : t[1] < u[1] \/ (t[1] = u[1] /\ t[2] <= u[2])

\* the one call of a linked request: FindAll of the target, with the owning
\* resource's id as query parameter
LinkedFindAll ==
    /\ OnlyCall(resources[LinkTarget[2]].name, "FindAll")
    /\ (Res.name \o "ID") \in DOMAIN calls[1].arg.query
    /\ calls[1].arg.query[Res.name \o "ID"] = <<req.id>>

UnresolvedIs404 ==
    LinkTargets = {} =>
        /\ resp.status = 404
        /\ resp.body = "error"
        /\ resp.detail = NoLinkedHandler(req.linked)
        /\ calls = <<>>

\* C7 as stated: an unresolvable :linked segment gives a 404 document naming
\* it and no call; a resolved target has FindAll invoked with <name>ID = [id].
C7_ResolvedAlwaysInvoked ==
    req.op = "linked" =>
        /\ UnresolvedIs404
        /\ LinkTargets # {} => LinkedFindAll

\* C7 amended: as stated, but a resolved target has FindAll invoked only
\* when its data source implements FindAll; when it does not, the answer is
\* 404 naming FindAll and no call is made.
C7_ResolvedInvokedIfCapable ==
    req.op = "linked" =>
        /\ UnresolvedIs404
        /\ LinkTargets # {} =>
               IF "FindAll" \in resources[LinkTarget[2]].source.caps
               THEN LinkedFindAll
               ELSE /\ resp.status = 404
                    /\ resp.detail = MissingInterface("FindAll")
                    /\ calls = <<>>

\* comments/:id/parent resolved through the second field of that name
C7_Witness ==
    /\ req.op = "linked"
    /\ req.linked = "parent"
    /\ LinkTargets # {}
    /\ LinkedFindAll
    /\ calls[1].source = "posts"
    /\ resp.status = 200

UniqueNames ==
    \A i, j \in 1..Len(resources) : i # j => resources[i].name # resources[j].name

\* a registration of a prototype that is no struct, or of a name already taken
RejectedRegistration ==
    /\ req'.op = "AddResource"
    /\ \/ req'.prototype.kind # "struct"
       \/ \E i \in 1..Len(resources) :
              resources[i].name = Jsonify(Pluralize(req'.prototype.name))

\* C8: no two resources of the list share a name, and a registration of a
\* taken name or of a prototype that is no struct is rejected and leaves the
\* list as it was.
C8_UniqueNames ==
    /\ []UniqueNames
    /\ [][RejectedRegistration => (resp'.panic /\ resources' = resources)]_vars

\* a struct registered under a name that is taken
C8_Witness ==
    /\ req.op = "AddResource"
    /\ req.prototype.kind = "struct"
    /\ resp.panic
    /\ Len(resources) = 1

\* C9: a data-source call that fails is the last call of its request, the
\* response carries the status of its error (that of an HTTPError, else
\* 500), and no data-source method is invoked twice in one request.
C9_ErrorEndsRequest ==
    req.op \in RequestOps =>
        /\ \A k \in 1..Len(calls) :
               ~calls[k].err.ok =>
                   /\ k = Len(calls)
                   /\ resp.status = StatusOf(calls[k].err)
        /\ \A k, m \in 1..Len(calls) :
               k # m => calls[k].method # calls[m].method

\* a Create that fails with an HTTPError: no FindOne follows
C9_Witness ==
    /\ req.op = "create"
    /\ Len(calls) = 1
    /\ calls[1].method = "Create"
    /\ calls[1].err.typed
    /\ resp.status = 422

(***************************************************************************)
(* The pagination link calculator on its own: getLinks applied to a valid  *)
(* pair of pagination parameters and a total count.                        *)
(***************************************************************************)
LinkChars == {"0", "1", "2", "4", "5", "x"}

\* the parameter values: the strings of one or two of the characters
LinkStrings == {<<a>> : a \in LinkChars} \cup {<<a, b>> : a, b \in LinkChars}

LinkQueries ==
    [{"page[number]", "page[size]"} -> LinkStrings]
    \cup [{"page[offset]", "page[limit]"} -> LinkStrings]

LinksInit ==
    /\ resources = <<>>
    /\ routes = {}
    /\ calls = <<>>
    /\ req \in [op : {"getLinks"}, query : LinkQueries, count : 0..MaxUint]
    /\ resp = [done |-> FALSE, links |-> EmptyMap, err |-> FALSE, panic |-> FALSE]

GetLinks ==
    /\ req.op = "getLinks"
    /\ ~resp.done
    /\ LET lr == getLinks(newPaginationQueryParams(req.query), req.query, req.count)
       IN  resp' = [done |-> TRUE, links |-> lr.links, err |-> lr.err, panic |-> lr.panic]
    /\ UNCHANGED <<resources, routes, req, calls>>

LinksNext == GetLinks

LinksSpec == LinksInit /\ [][LinksNext]_vars

\* the result of getLinks is in: the request was in the given mode and both
\* of its parameters parse
LinksDone(k1, k2) ==
    /\ req.op = "getLinks"
    /\ resp.done
    /\ k1 \in DOMAIN req.query
    /\ ~ParseUint(req.query[k1]).err
    /\ ~ParseUint(req.query[k2]).err

HasLinks(rels) == rels \subseteq DOMAIN resp.links
NoLinks(rels) == rels \cap DOMAIN resp.links = {}

\* the link of the relation carries the decimal v under the key
LinkIs(rel, key, v) ==
    /\ rel \in DOMAIN resp.links
    /\ v >= 0
    /\ resp.links[rel][key] = FormatUint(v)

\* C4: in page/size mode with number n >= 1 (pages are numbered from 1),
\* size s > 0 and totalPages = ceil(count / s): first and prev are omitted when n = 1 and are number=1
\* and number=n-1 otherwise; next and last are omitted when n = totalPages
\* and are number=n+1 and number=totalPages otherwise.
C4_PageLinksByValue ==
    (/\ LinksDone("page[number]", "page[size]")
     /\ ParseUint(req.query["page[number]"]).val >= 1
     /\ ParseUint(req.query["page[size]"]).val > 0) =>
        LET n == ParseUint(req.query["page[number]"]).val
            sz == ParseUint(req.query["page[size]"]).val
            totalPages == (req.count + sz - 1) \div sz
        IN  /\ n = 1 => NoLinks({"first", "prev"})
            /\ n # 1 => /\ LinkIs("first", "page[number]", 1)
                        /\ LinkIs("prev", "page[number]", n - 1)
            /\ n = totalPages => NoLinks({"next", "last"})
            /\ n # totalPages => /\ LinkIs("next", "page[number]", n + 1)
                                 /\ LinkIs("last", "page[number]", totalPages)

\* C5: in offset/limit mode with offset o and limit l, o + l within the
\* machine word (C10 is about the sums beyond it): first and prev are
\* omitted when o = 0 and present otherwise; next and last are omitted when
\* o + l >= count and present when o + l < count.
C5_OffsetLinksByValue ==
    (/\ LinksDone("page[offset]", "page[limit]")
     /\ ParseUint(req.query["page[offset]"]).val
          + ParseUint(req.query["page[limit]"]).val <= MaxUint) =>
        LET o == ParseUint(req.query["page[offset]"]).val
            l == ParseUint(req.query["page[limit]"]).val
        IN  /\ o = 0 => NoLinks({"first", "prev"})
            /\ o # 0 => HasLinks({"first", "prev"})
            /\ o + l >= req.count => NoLinks({"next", "last"})
            /\ o + l < req.count => HasLinks({"next", "last"})

\* C10: in offset/limit mode no link is the result of wrapped arithmetic:
\* prev is max(o - l, 0); next and last are there only when the true sum
\* o + l is below count, next being o + l and last count - l >= 0.
C10_NoWrappedOffsets ==
    LinksDone("page[offset]", "page[limit]") =>
        LET o == ParseUint(req.query["page[offset]"]).val
            l == ParseUint(req.query["page[limit]"]).val
        IN  /\ "prev" \in DOMAIN resp.links =>
                   LinkIs("prev", "page[offset]", IF o >= l THEN o - l ELSE 0)
            /\ "next" \in DOMAIN resp.links =>
                   o + l < req.count /\ LinkIs("next", "page[offset]", o + l)
            /\ "last" \in DOMAIN resp.links =>
                   o + l < req.count /\ LinkIs("last", "page[offset]", req.count - l)

====
